---- MODULE Spec2Model ----
(***************************************************************************)
(* SteamID codec of scream-id (src/src/lib.rs): the two validators,        *)
(* SteamID::new and SteamID::render_as_steam2.                              *)
(*                                                                         *)
(* Text is a sequence of one-character strings.  A u64 is a sequence of    *)
(* four 16-bit limbs, least significant first, and a u32 a sequence of two,*)
(* so that every intermediate value stays within the checker's integers    *)
(* while the arithmetic keeps the width the code has.                      *)
(***************************************************************************)
EXTENDS Integers, Sequences, FiniteSets, TLC

VARIABLES
    input,      \* the &str handed to every operation
    id64,       \* result of validate_steam64(input)
    id2,        \* result of validate_steam2(input)
    id,         \* result of SteamID::new(input)
    scheme,     \* the branch SteamID::new took
    moved,      \* the SteamID was consumed by render_as_steam2(self)
    text        \* result of render_as_steam2

vars == <<input, id64, id2, id, scheme, moved, text>>

----------------------------------------------------------------------------
(* Bounds *)

\* Number of trailing decimal digits of every input family left free.
NFree == 1

----------------------------------------------------------------------------
(* Option / outcome values *)

Unset == [tag |-> "unset"]
None == [tag |-> "none"]
Panic == [tag |-> "panic"]
Some(x) == [tag |-> "some", val |-> x]

unwrap_or(opt, default) == IF opt.tag = "some" THEN opt.val ELSE default

----------------------------------------------------------------------------
(* Characters and strings *)

DigitChars == <<"0", "1", "2", "3", "4", "5", "6", "7", "8", "9">>
Digits == {DigitChars[i] : i \in 1..10}

\* char::to_digit(10) on an ASCII decimal digit
DigitVal(c) == (CHOOSE i \in 1..10 : DigitChars[i] = c) - 1

\* number of UTF-8 bytes of a character of the alphabet used here
Utf8Len(c) == IF c = "é" THEN 2 ELSE 1

\* str::len: the length in bytes
RECURSIVE ByteLen(_)
ByteLen(s) == IF s = <<>> THEN 0 ELSE Utf8Len(Head(s)) + ByteLen(Tail(s))

\* str::split(':') collected: the parts between the colons
RECURSIVE Split(_)
Split(s) ==
    LET cut == {i \in 1..Len(s) : s[i] = ":"}
    IN  IF cut = {} THEN <<s>>
        ELSE LET i == CHOOSE j \in cut : \A k \in cut : j <= k
             IN  <<SubSeq(s, 1, i - 1)>> \o Split(SubSeq(s, i + 1, Len(s)))

----------------------------------------------------------------------------
(* Fixed-width unsigned integers as 16-bit limbs, least significant first *)

LimbBase == 2^16
U64Limbs == 4
U32Limbs == 2

Zero(n) == [i \in 1..n |-> 0]
IsZero(l) == \A i \in 1..Len(l) : l[i] = 0

\* a small natural as a u32
U32(k) == <<k % LimbBase, k \div LimbBase>>

\* `as u32` on a u64: truncation to the low 32 bits
AsU32(l) == SubSeq(l, 1, U32Limbs)

\* l * m + a, limb by limb; the last element of the result is the carry out
RECURSIVE MulAdd(_, _, _)
MulAdd(l, m, a) ==
    IF l = <<>> THEN <<a>>
    ELSE LET t == l[1] * m + a
         IN  <<t % LimbBase>> \o MulAdd(Tail(l), m, t \div LimbBase)

\* l / d for a small divisor d: long division from the top limb down
RECURSIVE DivRem(_, _, _)
DivRem(l, d, rem) ==
    IF l = <<>> THEN [quot |-> <<>>, rem |-> rem]
    ELSE LET n == Len(l)
             t == rem * LimbBase + l[n]
             rest == DivRem(SubSeq(l, 1, n - 1), d, t % d)
         IN  [quot |-> Append(rest.quot, t \div d), rem |-> rest.rem]

\* bitwise AND of two naturals
RECURSIVE BitAndNat(_, _)
BitAndNat(a, b) ==
    IF a = 0 \/ b = 0 THEN 0
    ELSE (a % 2) * (b % 2) + 2 * BitAndNat(a \div 2, b \div 2)

\* the & operator on two u64
BitAnd(l, mask) == [i \in 1..Len(l) |-> BitAndNat(l[i], mask[i])]

\* the >> operator on a u64
Shr(l, k) ==
    LET whole == k \div 16
        bits == k % 16
        at(i) == IF i <= Len(l) THEN l[i] ELSE 0
    IN  [i \in 1..Len(l) |->
            (at(i + whole) \div 2^bits) + (at(i + whole + 1) % 2^bits) * 2^(16 - bits)]

\* const ACCOUNT_ID_MASK: u64 = 0xFFFFFFFF
ACCOUNT_ID_MASK == <<65535, 65535, 0, 0>>
\* const ACCOUNT_INSTANCE_MASK: u64 = 0x000FFFFF
ACCOUNT_INSTANCE_MASK == <<65535, 15, 0, 0>>

\* The digit loop of from_str_radix: checked_mul(10) then checked_add(digit),
\* Err on a character that is no digit and on overflow of the type.
RECURSIVE Accumulate(_, _)
Accumulate(digits, acc) ==
    IF digits = <<>> THEN Some(acc)
    ELSE IF Head(digits) \notin Digits THEN None
    ELSE LET r == MulAdd(acc, 10, DigitVal(Head(digits)))
             n == Len(acc)
         IN  IF r[n + 1] # 0 THEN None
             ELSE Accumulate(Tail(digits), SubSeq(r, 1, n))

\* u64::from_str_radix(src, 10) and str::parse::<u32>() of the standard
\* library, for an unsigned type of n limbs: Err on the empty string and on a
\* lone sign; one leading '+' is skipped; a '-' is an invalid digit.
from_str_radix(src, n) ==
    IF src = <<>> THEN None
    ELSE IF Len(src) = 1 /\ src[1] \in {"+", "-"} THEN None
    ELSE IF src[1] = "+" THEN Accumulate(Tail(src), Zero(n))
    ELSE Accumulate(src, Zero(n))

\* Display of an unsigned integer: its decimal digits, no leading zero
RECURSIVE FormatUnsigned(_)
FormatUnsigned(l) ==
    LET r == DivRem(l, 10, 0)
    IN  IF IsZero(r.quot) THEN <<DigitChars[r.rem + 1]>>
        ELSE Append(FormatUnsigned(r.quot), DigitChars[r.rem + 1])

----------------------------------------------------------------------------
(* The enumerations *)

UniverseAsU32(u) ==
    CASE u = "Invalid" -> 0 [] u = "Public" -> 1 [] u = "Beta" -> 2
      [] u = "Internal" -> 3 [] u = "Dev" -> 4

Types ==
    <<"Invalid", "Individual", "Multiseat", "GameServer", "AnonGameServer", "Pending",
      "ContentServer", "Clan", "Chat", "P2PSuperSeeder", "AnonUser">>

InstanceAsU32(i) ==
    CASE i = "All" -> 0 [] i = "Desktop" -> 1 [] i = "Console" -> 2 [] i = "Web" -> 4

\* mutant: the table shifted by one code
Universe_from_u32_Shifted(value) ==
    CASE value = U32(0) -> Some("Public")
      [] value = U32(1) -> Some("Beta")
      [] value = U32(2) -> Some("Internal")
      [] value = U32(3) -> Some("Dev")
      [] OTHER -> None

Universe_from_u32(value) ==
    CASE value = U32(0) -> Some("Invalid")
      [] value = U32(1) -> Some("Public")
      [] value = U32(2) -> Some("Beta")
      [] value = U32(3) -> Some("Internal")
      [] value = U32(4) -> Some("Dev")
      [] OTHER -> None

Type_from_u32(value) ==
    IF value[2] = 0 /\ value[1] <= 10 THEN Some(Types[value[1] + 1]) ELSE None

Instance_from_u32(value) ==
    CASE value = U32(0) -> Some("All")
      [] value = U32(1) -> Some("Desktop")
      [] value = U32(2) -> Some("Console")
      [] value = U32(4) -> Some("Web")
      [] OTHER -> None

----------------------------------------------------------------------------
(* The operations *)

validate_steam64(s) ==
    IF ByteLen(s) = 17
    THEN LET r == from_str_radix(s, U64Limbs)
         IN  IF r.tag = "some" /\ ~IsZero(BitAnd(r.val, ACCOUNT_ID_MASK))
             THEN Some(r.val)
             ELSE None
    ELSE None

\* mutant: only the "STEAM_0" prefix is accepted
validate_steam2_OnlySteam0(s) ==
    LET parts == Split(s)
    IN  IF Len(parts) # 3 THEN None
        ELSE IF parts[1] # <<"S", "T", "E", "A", "M", "_", "0">> THEN None
        ELSE Some(s)

validate_steam2(s) ==
    LET parts == Split(s)
    IN  IF Len(parts) # 3 THEN None
        ELSE IF parts[1] # <<"S", "T", "E", "A", "M", "_", "0">> /\ parts[1] #  \* "STEAM_0"
      <<"S", "T", "E", "A", "M", "_", "1">> THEN None  \* "STEAM_1"
        ELSE Some(s)

\* mutant: the type field masked with 0x7 instead of 0xF
FromSteam64_NarrowTypeMask(v) ==
    [universe |-> unwrap_or(Universe_from_u32(AsU32(Shr(v, 56))), "Invalid"),
     type_ |-> unwrap_or(Type_from_u32(AsU32(BitAnd(Shr(v, 52), <<7, 0, 0, 0>>))), "Invalid"),
     instance |-> unwrap_or(Instance_from_u32(AsU32(BitAnd(Shr(v, 32), ACCOUNT_INSTANCE_MASK))),
                            "All"),
     account_id |-> AsU32(BitAnd(v, ACCOUNT_ID_MASK))]

\* the numeric branch of SteamID::new
FromSteam64(v) ==
    [universe |-> unwrap_or(Universe_from_u32(AsU32(Shr(v, 56))), "Invalid"),
     type_ |-> unwrap_or(Type_from_u32(AsU32(BitAnd(Shr(v, 52), <<15, 0, 0, 0>>))), "Invalid"),
     instance |-> unwrap_or(Instance_from_u32(AsU32(BitAnd(Shr(v, 32), ACCOUNT_INSTANCE_MASK))),
                            "All"),
     account_id |-> AsU32(BitAnd(v, ACCOUNT_ID_MASK))]

\* mutant: the arm for 0 is missing
Steam2Universe_NoZeroArm(u) == unwrap_or(Universe_from_u32(u), "Public")

\* the universe match of the legacy branch of SteamID::new
Steam2Universe(u) ==
    IF u = U32(0) THEN "Public" ELSE unwrap_or(Universe_from_u32(u), "Public")

\* the legacy branch of SteamID::new; each unwrap() of an Err panics
FromSteam2(s) ==
    LET parts == Split(s)
        account_id == from_str_radix(parts[3], U32Limbs)
        universe == from_str_radix(parts[2], U32Limbs)
    IN  IF account_id.tag # "some" THEN Panic
        ELSE IF universe.tag # "some" THEN Panic
        ELSE Some([universe |-> Steam2Universe(universe.val),
                   type_ |-> "Individual",
                   instance |-> "Desktop",
                   account_id |-> account_id.val])

\* which branch SteamID::new takes on s
Branch(s) ==
    IF validate_steam64(s).tag = "some" THEN "steam64"
    ELSE IF validate_steam2(s).tag = "some" THEN "steam2"
    ELSE "none"

new(s) ==
    LET r64 == validate_steam64(s)
        r2 == validate_steam2(s)
    IN  IF r64.tag = "some" THEN Some(FromSteam64(r64.val))
        ELSE IF r2.tag = "some" THEN FromSteam2(r2.val)
        ELSE None

\* mutant: Public is not rewritten to 0
RenderUniverse_NoRewrite(self) == UniverseAsU32(self.universe)

\* the universe numeral of the output of render_as_steam2
RenderUniverse(self) ==
    IF UniverseAsU32(self.universe) = 1 THEN 0 ELSE UniverseAsU32(self.universe)

\* mutant: the account number is not halved
RenderAccount_NotHalved(self) == FormatUnsigned(self.account_id)

\* ((account_id / 2) as f64).floor() under Display: a u32 is exact as an f64,
\* floor leaves an integral value alone, and Display prints an integral f64
\* as its decimal digits without a fraction or an exponent.
RenderAccount(self) == FormatUnsigned(DivRem(self.account_id, 2, 0).quot)

\* mutant: only the Invalid type is refused
render_as_steam2_RefuseInvalidOnly(self) ==
    IF self.type_ = "Invalid" THEN None
    ELSE Some(<<"S", "T", "E", "A", "M", "_">> \o FormatUnsigned(U32(RenderUniverse(self))) \o  \* "STEAM_"
      <<":">>  \* ":"
              \o FormatUnsigned(U32(InstanceAsU32(self.instance))) \o <<":">>
              \o RenderAccount(self))

render_as_steam2(self) ==
    IF self.type_ # "Individual" THEN None
    ELSE Some(<<"S", "T", "E", "A", "M", "_">> \o FormatUnsigned(U32(RenderUniverse(self))) \o  \* "STEAM_"
      <<":">>  \* ":"
              \o FormatUnsigned(U32(InstanceAsU32(self.instance))) \o <<":">>
              \o RenderAccount(self))

----------------------------------------------------------------------------
(* Inputs *)

Tails(k) == [1..k -> Digits]

\* replace the last NFree characters of s by every choice of digits
FreeTail(s) == {SubSeq(s, 1, Len(s) - NFree) \o t : t \in Tails(NFree)}

\* 17-digit numerals covering universe codes 0 and 1, every 4-bit type code,
\* named and unnamed instance codes, and low 32 bits that are zero
NumericSeeds ==
    { <<"7", "6", "5", "6", "1", "1", "9", "8", "4", "0", "3", "2", "5", "6", "3", "9", "9">>,  \* "76561198403256399"
      <<"7", "6", "5", "6", "1", "1", "9", "7", "9", "6", "0", "2", "6", "5", "7", "2", "8">>,  \* "76561197960265728"
      <<"0", "0", "0", "0", "0", "0", "0", "0", "0", "0", "0", "0", "0", "0", "0", "0", "0">>,  \* "00000000000000000"
      <<"0", "0", "0", "0", "0", "0", "0", "4", "2", "9", "4", "9", "6", "7", "2", "9", "6">>,  \* "00000004294967296"
      <<"7", "2", "0", "5", "7", "5", "9", "4", "0", "3", "7", "9", "2", "7", "9", "4", "3">>,  \* "72057594037927943"
      <<"7", "6", "5", "6", "1", "1", "9", "3", "6", "6", "5", "2", "9", "8", "5", "3", "2">>,  \* "76561193665298532"
      <<"7", "6", "5", "6", "1", "2", "0", "6", "5", "5", "0", "2", "0", "0", "3", "1", "9">>,  \* "76561206550200319"
      <<"7", "6", "5", "6", "1", "2", "1", "2", "9", "9", "2", "6", "5", "1", "2", "6", "4">>,  \* "76561212992651264"
      <<"7", "6", "5", "6", "1", "2", "0", "6", "5", "5", "0", "2", "1", "2", "6", "6", "5">>,  \* "76561206550212665"
      <<"7", "6", "5", "6", "1", "2", "1", "5", "1", "4", "0", "1", "3", "4", "9", "1", "3">>,  \* "76561215140134913"
      <<"8", "1", "0", "6", "4", "7", "8", "8", "9", "9", "7", "7", "0", "1", "7", "3", "1">>,  \* "81064788997701731"
      <<"8", "1", "0", "6", "4", "7", "9", "7", "5", "8", "7", "6", "3", "6", "2", "2", "9">>,  \* "81064797587636229"
      <<"8", "5", "5", "6", "8", "3", "9", "7", "2", "1", "5", "0", "0", "7", "1", "2", "0">>,  \* "85568397215007120"
      <<"9", "0", "0", "7", "1", "9", "9", "2", "5", "4", "7", "4", "1", "0", "3", "2", "0">>,  \* "90071992547410320"
      <<"9", "4", "5", "7", "5", "5", "9", "6", "4", "6", "9", "7", "4", "8", "1", "1", "2">>,  \* "94575596469748112"
      <<"9", "9", "0", "7", "9", "1", "9", "6", "0", "9", "7", "1", "1", "8", "2", "0", "8">>,  \* "99079196097118208"
      <<"3", "1", "5", "2", "5", "1", "9", "7", "4", "9", "5", "1", "7", "6", "2", "6", "3">>,  \* "31525197495176263"
      <<"3", "8", "2", "8", "0", "5", "9", "6", "8", "3", "2", "6", "4", "9", "4", "1", "6">>,  \* "38280596832649416"
      <<"4", "0", "5", "3", "2", "4", "0", "0", "9", "4", "1", "3", "0", "2", "0", "6", "0">>,  \* "40532400941302060"
      <<"4", "5", "0", "3", "6", "0", "0", "0", "5", "6", "8", "6", "7", "2", "5", "5", "6">>,  \* "45036000568672556"
      <<"4", "9", "5", "3", "9", "6", "0", "0", "1", "9", "6", "0", "4", "3", "0", "5", "2">>,  \* "49539600196043052"
      <<"5", "4", "0", "4", "3", "1", "9", "9", "8", "2", "3", "4", "1", "3", "5", "4", "8">>,  \* "54043199823413548"
      <<"5", "8", "5", "4", "6", "8", "0", "3", "7", "4", "5", "7", "5", "1", "3", "4", "0">>,  \* "58546803745751340"
      <<"6", "3", "0", "5", "0", "4", "1", "1", "9", "6", "3", "0", "5", "6", "4", "2", "8">>,  \* "63050411963056428"
      <<"6", "7", "5", "5", "3", "9", "9", "8", "7", "0", "5", "5", "2", "5", "0", "3", "6">>,  \* "67553998705525036"
      <<"0", "4", "5", "0", "3", "6", "0", "3", "9", "2", "2", "3", "3", "8", "0", "9", "2">>,  \* "04503603922338092"
      <<"0", "4", "5", "0", "3", "5", "9", "9", "6", "2", "7", "4", "3", "6", "0", "3", "2">>,  \* "04503599627436032"
      <<"0", "4", "5", "0", "3", "6", "0", "3", "9", "2", "2", "3", "3", "7", "7", "9", "2">>,  \* "04503603922337792"
      <<"5", "4", "0", "4", "3", "2", "2", "5", "5", "9", "3", "2", "1", "7", "3", "2", "4">> }  \* "54043225593217324"

NumericInputs == UNION {FreeTail(s) : s \in NumericSeeds}

\* near misses of the numeric form, built from a few of the numerals
NearMissSeeds == { <<"7", "6", "5", "6", "1", "1", "9", "8", "4", "0", "3", "2", "5", "6", "3", "9", "9">>,  \* "76561198403256399"
      <<"7", "6", "5", "6", "1", "1", "9", "7", "9", "6", "0", "2", "6", "5", "7", "2", "8">>,  \* "76561197960265728"
      <<"0", "4", "5", "0", "3", "6", "0", "3", "9", "2", "2", "3", "3", "8", "0", "9", "2">> }  \* "04503603922338092"

NearMisses(s) ==
    { <<"+">> \o Tail(s), <<"-">> \o Tail(s), <<" ">> \o Tail(s), <<"é">> \o Tail(Tail(s)),
      SubSeq(s, 1, 8) \o <<"x">> \o SubSeq(s, 10, 17),
      Tail(s), s \o <<"0">>, <<"+">> \o s, SubSeq(s, 1, 16) \o <<"+">> }

NearMissInputs == UNION {NearMisses(s) : s \in UNION {FreeTail(t) : t \in NearMissSeeds}}

\* legacy triples x:u:n; the account number n is a head followed by NFree
\* free digits, so that "429496729" reaches both sides of 2^32 - 1
XParts == { <<"S", "T", "E", "A", "M", "_", "0">>,  \* "STEAM_0"
      <<"S", "T", "E", "A", "M", "_", "1">>,  \* "STEAM_1"
      <<"S", "T", "E", "A", "M", "_", "2">>,  \* "STEAM_2"
      <<"s", "t", "e", "a", "m", "_", "0">> }  \* "steam_0"
UParts == { <<"0">>,  \* "0"
      <<"1">>,  \* "1"
      <<"2">>,  \* "2"
      <<"3">>,  \* "3"
      <<"4">>,  \* "4"
      <<"5">>,  \* "5"
      <<"+", "1">>,  \* "+1"
      <<"0", "0">>,  \* "00"
      <<"4", "2", "9", "4", "9", "6", "7", "2", "9", "6">>,  \* "4294967296"
      <<>> }  \* ""
NHeads == { <<>>,  \* ""
      <<"2", "2", "1", "4", "9", "5", "3", "3">>,  \* "22149533"
      <<"4", "2", "9", "4", "9", "6", "7", "2", "9">>,  \* "429496729"
      <<"0", "0", "0">>,  \* "000"
      <<"+">>,  \* "+"
      <<"1", "x">> }  \* "1x"

LegacyInputs ==
    {x \o <<":">> \o u \o <<":">> \o n :
        x \in XParts, u \in UParts, n \in UNION {FreeTail(h \o <<"0">>) : h \in NHeads}}

FixedInputs ==
    { <<>>,  \* ""
      <<"2", "3">>,  \* "23"
      <<"S", "T", "E", "A", "M", "_", "0", ":", "1", ":">>,  \* "STEAM_0:1:"
      <<"S", "T", "E", "A", "M", "_", "0", ":", "1", ":", "a", "b", "c">>,  \* "STEAM_0:1:abc"
      <<"S", "T", "E", "A", "M", "_", "0", ":", "1", ":", "-">>,  \* "STEAM_0:1:-"
      <<"S", "T", "E", "A", "M", "_", "1", ":", "-", "1", ":", "7">>,  \* "STEAM_1:-1:7"
      <<"S", "T", "E", "A", "M", "_", "0", ":", "1">>,  \* "STEAM_0:1"
      <<"S", "T", "E", "A", "M", "_", "0", ":", "1", ":", "2", ":", "3">>,  \* "STEAM_0:1:2:3"
      <<":", ":">>,  \* "::"
      <<"S", "T", "E", "A", "M", "_", "0">>,  \* "STEAM_0"
      <<"S", "T", "E", "A", "M", "_", ":", "0", ":", "1">>,  \* "STEAM_:0:1"
      <<"[", "U", ":", "1", ":", "4", "4", "2", "9", "9", "0", "6", "7", "1", "]">> }

Inputs == NumericInputs \cup NearMissInputs \cup LegacyInputs \cup FixedInputs

----------------------------------------------------------------------------
(* The state machine: a caller holding one input string calls the public   *)
(* functions on it in any order; a panic ends the process.                 *)

Init ==
    /\ input \in Inputs
    /\ id64 = Unset
    /\ id2 = Unset
    /\ id = Unset
    /\ scheme = "unset"
    /\ moved = FALSE
    /\ text = Unset

Running == id.tag # "panic"

ValidateSteam64 ==
    /\ Running
    /\ id64.tag = "unset"
    /\ id64' = validate_steam64(input)
    /\ UNCHANGED <<input, id2, id, scheme, moved, text>>

ValidateSteam2 ==
    /\ Running
    /\ id2.tag = "unset"
    /\ id2' = validate_steam2(input)
    /\ UNCHANGED <<input, id64, id, scheme, moved, text>>

New ==
    /\ Running
    /\ id.tag = "unset"
    /\ id' = new(input)
    /\ scheme' = Branch(input)
    /\ UNCHANGED <<input, id64, id2, moved, text>>

RenderAsSteam2 ==
    /\ Running
    /\ id.tag = "some"
    /\ ~moved
    /\ text' = render_as_steam2(id.val)
    /\ moved' = TRUE
    /\ UNCHANGED <<input, id64, id2, id, scheme>>

Next == ValidateSteam64 \/ ValidateSteam2 \/ New \/ RenderAsSteam2

Spec == Init /\ [][Next]_vars

----------------------------------------------------------------------------
(* What the specification says, stated on the decimal text itself.  The    *)
(* numerals are evaluated by decimal long division, not by the code's      *)
(* multiply-and-add, and the fields are located by the colons' positions.  *)

AllDigits(s) == \A i \in 1..Len(s) : s[i] \in Digits

\* quotient (as a numeral of the same length) and remainder of numeral s by d
RECURSIVE DecDivRem(_, _, _)
DecDivRem(s, d, rem) ==
    IF s = <<>> THEN [quot |-> <<>>, rem |-> rem]
    ELSE LET t == rem * 10 + DigitVal(Head(s))
             rest == DecDivRem(Tail(s), d, t % d)
         IN  [quot |-> <<DigitChars[(t \div d) + 1]>> \o rest.quot, rem |-> rest.rem]

\* bits 16k .. 16k+15 of the integer the numeral s denotes
RECURSIVE DecLimb(_, _)
DecLimb(s, k) ==
    IF k = 0 THEN DecDivRem(s, 2^16, 0).rem
    ELSE DecLimb(DecDivRem(s, 2^16, 0).quot, k - 1)

\* the numeral s with its leading zeros removed
RECURSIVE StripZeros(_)
StripZeros(s) == IF Len(s) > 1 /\ Head(s) = "0" THEN StripZeros(Tail(s)) ELSE s

\* the numeral s denotes an integer below 2^32
DecFitsU32(s) ==
    LET q == DecDivRem(DecDivRem(s, 2^16, 0).quot, 2^16, 0).quot
    IN  \A i \in 1..Len(q) : q[i] = "0"

\* the decimal numeral of a natural
RECURSIVE NatToDec(_)
NatToDec(n) ==
    IF n < 10 THEN <<DigitChars[n + 1]>>
    ELSE Append(NatToDec(n \div 10), DigitChars[(n % 10) + 1])

IsNumeral17(s) == Len(s) = 17 /\ AllDigits(s)
DecLowNonzero(s) == DecLimb(s, 0) # 0 \/ DecLimb(s, 1) # 0

SpecUniverse(code) ==
    CASE code = 1 -> "Public" [] code = 2 -> "Beta" [] code = 3 -> "Internal"
      [] code = 4 -> "Dev" [] OTHER -> "Invalid"

SpecKind(code) ==
    CASE code = 1 -> "Individual" [] code = 2 -> "Multiseat" [] code = 3 -> "GameServer"
      [] code = 4 -> "AnonGameServer" [] code = 5 -> "Pending" [] code = 6 -> "ContentServer"
      [] code = 7 -> "Clan" [] code = 8 -> "Chat" [] code = 9 -> "P2PSuperSeeder"
      [] code = 10 -> "AnonUser" [] OTHER -> "Invalid"

SpecInstance(code) ==
    CASE code = 1 -> "Desktop" [] code = 2 -> "Console" [] code = 4 -> "Web" [] OTHER -> "All"

SpecUniverseCode(u) ==
    CASE u = "Invalid" -> 0 [] u = "Public" -> 1 [] u = "Beta" -> 2 [] u = "Internal" -> 3
      [] u = "Dev" -> 4

SpecInstanceCode(i) ==
    CASE i = "All" -> 0 [] i = "Desktop" -> 1 [] i = "Console" -> 2 [] i = "Web" -> 4

\* the field codes of the 64-bit integer a 17-digit numeral denotes
UniverseBits(s) == DecLimb(s, 3) \div 256
KindBits(s) == (DecLimb(s, 3) \div 16) % 16
InstanceBits(s) == (DecLimb(s, 3) % 16) * 2^16 + DecLimb(s, 2)
AccountBits(s) == <<DecLimb(s, 0), DecLimb(s, 1)>>

\* the colon-delimited fields of a text with exactly two colons
ColonsOf(s) == {i \in 1..Len(s) : s[i] = ":"}
ThreeParts(s) == Cardinality(ColonsOf(s)) = 2
Colon1(s) == CHOOSE i \in ColonsOf(s) : \A j \in ColonsOf(s) : i <= j
Colon2(s) == CHOOSE i \in ColonsOf(s) : \A j \in ColonsOf(s) : j <= i
Field1(s) == SubSeq(s, 1, Colon1(s) - 1)
Field2(s) == SubSeq(s, Colon1(s) + 1, Colon2(s) - 1)
Field3(s) == SubSeq(s, Colon2(s) + 1, Len(s))

LegacyForm(s) == ThreeParts(s) /\ Field1(s) \in { <<"S", "T", "E", "A", "M", "_", "0">>,  \* "STEAM_0"
      <<"S", "T", "E", "A", "M", "_", "1">> }  \* "STEAM_1"

\* a decimal numeral that fits an unsigned 32-bit integer
U32Numeral(s) == s # <<>> /\ AllDigits(s) /\ DecFitsU32(s)

\* a text that parses as an unsigned 32-bit integer: a numeral, or one after '+'
ParsesAsU32(s) == U32Numeral(s) \/ (s # <<>> /\ Head(s) = "+" /\ U32Numeral(Tail(s)))

OddNumeral(s) == U32Numeral(s) /\ s[Len(s)] \in { "1", "3", "5", "7", "9" }

----------------------------------------------------------------------------
(* Claims *)

\* C1: validate_steam64 accepts an input only if it is exactly 17 characters,
\* all of them decimal digits, and the low 32 bits of the integer they denote
\* are nonzero, and then returns that integer; SteamID::new never takes the
\* numeric branch for a string that is not exactly 17 decimal digits.
C1_NumericFormIsSeventeenDigits ==
    /\ id64.tag = "some" =>
          /\ IsNumeral17(input)
          /\ DecLowNonzero(input)
          /\ id64.val = [k \in 1..4 |-> DecLimb(input, k - 1)]
    /\ scheme = "steam64" => IsNumeral17(input)

\* C2: for every string of exactly 17 decimal digits whose low 32 bits are
\* nonzero, SteamID::new succeeds with account_id = v mod 2^32, universe from
\* bits 56-63 (Invalid if unnamed), type from bits 52-55 (Invalid if unnamed)
\* and instance from (v >> 32) & 0xFFFFF (All if unnamed).
C2_NumericDecomposition ==
    (id.tag # "unset" /\ IsNumeral17(input) /\ DecLowNonzero(input)) =>
        id = Some([universe |-> SpecUniverse(UniverseBits(input)),
                   type_ |-> SpecKind(KindBits(input)),
                   instance |-> SpecInstance(InstanceBits(input)),
                   account_id |-> AccountBits(input)])

\* a 17-digit input whose type code and instance code are both unnamed was parsed
C2_Witness ==
    /\ id.tag = "some"
    /\ IsNumeral17(input)
    /\ KindBits(input) > 10
    /\ InstanceBits(input) \notin {0, 1, 2, 4}
    /\ id.val.type_ = "Invalid"
    /\ id.val.instance = "All"

\* C3: SteamID::new returns a complete identifier or None on every input and
\* never aborts; for a string validate_steam2 accepts whose third part is not
\* an unsigned 32-bit numeral it returns None.
C3_ParseNeverAborts ==
    /\ id.tag \in {"unset", "some", "none"}
    /\ (id.tag # "unset" /\ LegacyForm(input) /\ ~ParsesAsU32(Field3(input)))
          => id.tag = "none"

\* C4: validate_steam2 accepts an input exactly when splitting it on ':' gives
\* three parts of which the first is "STEAM_0" or "STEAM_1", and then returns
\* the input unchanged; SteamID::new returns None for every three-part string
\* whose first part is neither.
C4_LegacyFormValidator ==
    /\ id2.tag # "unset" => (id2.tag = "some" <=> LegacyForm(input))
    /\ id2.tag = "some" => id2.val = input
    /\ (id.tag # "unset" /\ ThreeParts(input) /\ ~LegacyForm(input)) => id.tag = "none"

\* a three-part string with another first part was rejected by both operations
C4_Witness ==
    /\ ThreeParts(input)
    /\ Field1(input) = <<"S", "T", "E", "A", "M", "_", "2">>
    /\ U32Numeral(Field2(input))
    /\ U32Numeral(Field3(input))
    /\ id2.tag = "none"
    /\ id.tag = "none"

\* the text render_as_steam2 is specified to produce for an Individual
SpecLegacyText(self) ==
    <<"S", "T", "E", "A", "M", "_">>
    \o NatToDec(IF self.universe = "Public" THEN 0 ELSE SpecUniverseCode(self.universe))
    \o <<":">> \o NatToDec(SpecInstanceCode(self.instance))
    \o <<":">> \o NatToDec(self.account_id[2] * 2^15 + self.account_id[1] \div 2)

\* C5: render_as_steam2 on an identifier of type Individual returns
\* "STEAM_" U ":" I ":" A with U = 0 for Public and the universe's code
\* otherwise, I the instance's code and A = floor(account_id / 2) in decimal;
\* "76561198403256399" renders as "STEAM_0:1:221495335".
C5_RenderFormat ==
    /\ (moved /\ id.val.type_ = "Individual") => text = Some(SpecLegacyText(id.val))
    /\ (moved /\ input = <<"7", "6", "5", "6", "1", "1", "9", "8", "4", "0", "3", "2", "5", "6", "3", "9", "9">>) => text = Some(  \* "76561198403256399"
      <<"S", "T", "E", "A", "M", "_", "0", ":", "1", ":", "2", "2", "1", "4", "9", "5", "3", "3", "5">>)  \* "STEAM_0:1:221495335"

\* the documented example was parsed and rendered
C5_Witness ==
    /\ input = <<"7", "6", "5", "6", "1", "1", "9", "8", "4", "0", "3", "2", "5", "6", "3", "9", "9">>  \* "76561198403256399"
    /\ moved
    /\ text = Some(<<"S", "T", "E", "A", "M", "_", "0", ":", "1", ":", "2", "2", "1", "4", "9", "5", "3", "3", "5">>)  \* "STEAM_0:1:221495335"

\* C6: render_as_steam2 returns None exactly when the identifier's type is
\* not Individual.
C6_RenderOnlyIndividual ==
    moved => (text.tag = "none" <=> id.val.type_ # "Individual")
             /\ text.tag \in {"none", "some"}

\* an identifier of another type, in the Public universe, was rendered to None
C6_Witness ==
    /\ moved
    /\ id.val.type_ = "GameServer"
    /\ id.val.universe = "Public"
    /\ text.tag = "none"

\* C7: for every accepted legacy input "STEAM_x:u:n" with u and n decimal
\* numerals fitting 32 bits, SteamID::new returns type Individual, instance
\* Desktop, account_id = n, and universe Public if u = 0, the universe with
\* code u if u is in 1..4, and Public otherwise; never Invalid, whatever x is.
C7_LegacyDecomposition ==
    (id.tag # "unset" /\ LegacyForm(input) /\ U32Numeral(Field2(input))
        /\ U32Numeral(Field3(input))) =>
        LET u == AccountBits(Field2(input))
        IN  id = Some([universe |-> IF u[2] = 0 /\ u[1] \in 1..4
                                    THEN SpecUniverse(u[1]) ELSE "Public",
                       type_ |-> "Individual",
                       instance |-> "Desktop",
                       account_id |-> AccountBits(Field3(input))])

\* a legacy input with an unnamed universe code was parsed to Public
C7_Witness ==
    /\ LegacyForm(input)
    /\ Field2(input) = <<"5">>
    /\ U32Numeral(Field3(input))
    /\ id.tag = "some"
    /\ id.val.universe = "Public"

\* C8: every identifier SteamID::new returns, from either scheme, has a
\* nonzero account_id.
C8_AccountNumberNonzero ==
    id.tag = "some" => id.val.account_id # <<0, 0>>

\* C9: for every accepted legacy input "STEAM_x:u:n" with n odd, parsing and
\* then rendering gives a text whose third field is floor(n / 2), which is
\* not n, so the text never equals the input.
C9_RoundTripAsymmetry ==
    (moved /\ LegacyForm(input) /\ OddNumeral(Field3(input))) =>
        /\ text.tag = "some"
        /\ ThreeParts(text.val)
        /\ Field3(text.val) = StripZeros(DecDivRem(Field3(input), 2, 0).quot)
        /\ Field3(text.val) # StripZeros(Field3(input))
        /\ text.val # input

\* a legacy input with an odd account number was parsed and rendered
C9_Witness ==
    /\ moved
    /\ LegacyForm(input)
    /\ OddNumeral(Field3(input))
    /\ Field2(input) = <<"1">>
    /\ text.tag = "some"
    /\ Field1(text.val) = <<"S", "T", "E", "A", "M", "_", "0">>

\* C10: an identifier parsed from a numeric-form input has universe Invalid
\* or Public, so every text render_as_steam2 gives for it starts with
\* "STEAM_0" and is accepted by validate_steam2.
C10_NumericRendersAsSteam0 ==
    scheme = "steam64" =>
        /\ id.val.universe \in {"Invalid", "Public"}
        /\ text.tag = "some" =>
              /\ ThreeParts(text.val)
              /\ Field1(text.val) = <<"S", "T", "E", "A", "M", "_", "0">>
              /\ validate_steam2(text.val) = Some(text.val)

\* a numeric input in the Invalid universe was parsed and rendered to a text
C10_Witness ==
    /\ scheme = "steam64"
    /\ id.val.universe = "Invalid"
    /\ text.tag = "some"

====
